---- MODULE Spec2Model ----
(***************************************************************************)
(* lsinput (src/tools/lsinput.cpp): getLinksTo scans a directory for the   *)
(* symbolic links that resolve to a target, printLinks reports them and    *)
(* main enumerates /dev/input/event*.                                      *)
(*                                                                         *)
(* A path is a sequence of components; an absolute path starts with the    *)
(* component "/".  dirpath + "/" + name is Append(dirpath, name).          *)
(***************************************************************************)
EXTENDS Integers, Sequences, FiniteSets, TLC

VARIABLES fs, cwd, th, openDirs, faults, calls, serialized,
          mpc, midx, mfile, mpath, devfds, out

vars == <<fs, cwd, th, openDirs, faults, calls, serialized,
          mpc, midx, mfile, mpath, devfds, out>>

mainVars == <<mpc, midx, mfile, mpath, devfds, out>>
\* What getLinksTo neither reads nor writes.
callerVars == <<calls, serialized, mpc, midx, mfile, mpath, devfds, out>>

\* ---------------------------------------------------------------- bounds
\* Lookups of symbolic links realpath() follows before it gives up (ELOOP).
MaxSymlinks == 3
\* System-call failures injected in one run (lstat, readlink, chdir, fchdir).
MaxFaults == 1
\* Calls of getLinksTo made by the scan harness in one run.
MaxCalls == 1

\* ------------------------------------------------------------ filesystem
NULL == <<>>
Root == <<"/">>

File == [kind |-> "file", dest |-> <<>>, ents |-> <<>>]
Dir(e) == [kind |-> "dir", dest |-> <<>>, ents |-> e]
Link(d) == [kind |-> "link", dest |-> d, ents |-> <<>>]

IsAbs(p) == Len(p) > 0 /\ p[1] = "/"
Parent(c) == IF Len(c) <= 1 THEN c ELSE SubSeq(c, 1, Len(c) - 1)
Last(p) == p[Len(p)]

\* The path walk of realpath(3): `cur` is the canonical path reached so far,
\* `rest` the components still to resolve, `depth` the link lookups left.
RECURSIVE Walk(_, _, _, _)
Walk(f, cur, rest, depth) ==
    IF rest = <<>> THEN cur
    ELSE IF f[cur].kind # "dir" THEN NULL
    ELSE LET c == Head(rest)
             r == Tail(rest)
             nxt == Append(cur, c)
         IN  IF c = "." THEN Walk(f, cur, r, depth)
             ELSE IF c = ".." THEN Walk(f, Parent(cur), r, depth)
             ELSE IF nxt \notin DOMAIN f THEN NULL
             ELSE IF f[nxt].kind = "link"
                  THEN IF depth = 0 THEN NULL
                       ELSE IF IsAbs(f[nxt].dest)
                            THEN Walk(f, Root, Tail(f[nxt].dest) \o r, depth - 1)
                            ELSE Walk(f, cur, f[nxt].dest \o r, depth - 1)
             ELSE Walk(f, nxt, r, depth)

\* realpath(path, nullptr) in a process whose working directory is wd:
\* the canonical path, or NULL.
realpath(f, wd, p) ==
    IF p = <<>> THEN NULL
    ELSE IF IsAbs(p) THEN Walk(f, Root, Tail(p), MaxSymlinks)
    ELSE Walk(f, wd, p, MaxSymlinks)

\* opendir(dirpath): the directory the stream reads, or NULL.
opendir(f, wd, p) ==
    LET c == realpath(f, wd, p)
    IN  IF c # NULL /\ f[c].kind = "dir" THEN c ELSE NULL

\* The node lstat(path) and readlink(path) look at: the last component is
\* not followed.
lnode(f, wd, p) ==
    LET d == IF Len(p) = 1 THEN (IF IsAbs(p) THEN Root ELSE wd)
             ELSE realpath(f, wd, SubSeq(p, 1, Len(p) - 1))
        n == Last(p)
    IN  IF p = <<>> \/ d = NULL THEN NULL
        ELSE IF Len(p) = 1 /\ IsAbs(p) THEN Root
        ELSE IF f[d].kind # "dir" THEN NULL
        ELSE IF n = "." THEN d
        ELSE IF n = ".." THEN Parent(d)
        ELSE IF Append(d, n) \in DOMAIN f THEN Append(d, n)
        ELSE NULL

\* Mutant of lstat_node: stat(path), which follows the last component.
stat_node(f, wd, p) == realpath(f, wd, p)

\* The node lstat(path, &stbuf) describes.
lstat_node(f, wd, p) == lnode(f, wd, p)

\* S_ISLNK(stbuf.st_mode) after lstat(path, &stbuf)
S_ISLNK(f, n) == f[n].kind = "link"

\* readlink(path): the raw text stored in the link
readlink(f, n) == f[n].dest

\* ------------------------------------------------------------- ChDir
\* ChDir (utils.hpp) is used by getLinksTo but its definition is not among
\* the sources; it is modelled as the scoped working-directory override
\* of the specification: the constructor saves the working directory and
\* changes to `path`, popd() changes back to the saved directory, and a
\* failure to acquire or release leaves the working directory as it is.
ErrAcquire == "ScopeError(acquire): "
ErrRelease == "ScopeError(release): "
ChDir_chdir(f, wd, p) == opendir(f, wd, p)
ChDir_olddir(wd) == wd
ChDir_popd(olddir) == olddir

\* ------------------------------------------------------------- getLinksTo
Threads == {1, 2}

Idle ==
    [pc |-> "idle", target_rel |-> NULL, dirpath |-> NULL, dir |-> NULL,
     idx |-> 0, target |-> NULL, path |-> NULL, lnk_rel |-> NULL,
     lnk_dst |-> NULL, olddir |-> NULL, vec |-> <<>>, err |-> "",
     cwd0 |-> NULL]

\* Entry of getLinksTo(target_rel, dirpath); cwd0 records the working
\* directory the caller had.
Enter(target_rel, dirpath, wd) ==
    [Idle EXCEPT !.pc = "opendir", !.target_rel = target_rel,
                 !.dirpath = dirpath, !.cwd0 = wd]

\* throw SystemError(msg, errno): vec is freed by its unique_ptr, the DIR
\* stream is a raw pointer and stays as it is.
Raise(r, msg) == [r EXCEPT !.pc = "raised", !.err = msg, !.vec = <<>>]

Terminal == {"returned", "raised"}

\* An injected system-call failure, while the budget lasts.
Fault == IF faults < MaxFaults THEN BOOLEAN ELSE {FALSE}
Charge(fail) == faults' = IF fail THEN faults + 1 ELSE faults

\* Mutant of SamePath: only the last components are compared.
SamePath_basename(target, lnk_dst) == Last(target) = Last(lnk_dst)

\* target == lnk_dst on two std::string
SamePath(target, lnk_dst) == target = lnk_dst

\* Mutant of OpenDir: the target is canonicalized before the directory is
\* looked at.
OpenDir_targetFirst(t) ==
    /\ th[t].pc = "opendir"
    /\ LET d == opendir(fs, cwd, th[t].dirpath)
       IN  IF realpath(fs, cwd, th[t].target_rel) = NULL
           THEN /\ th' = [th EXCEPT ![t] = Raise(@, "Failure in realpath(): ")]
                /\ UNCHANGED openDirs
           ELSE IF d = NULL
           THEN /\ th' = [th EXCEPT ![t] = Raise(@, "Unable to open directory: ")]
                /\ UNCHANGED openDirs
           ELSE /\ th' = [th EXCEPT ![t].dir = d, ![t].idx = 0, ![t].pc = "realpath"]
                /\ openDirs' = openDirs + 1
    /\ UNCHANGED <<fs, cwd, faults>>
    /\ UNCHANGED callerVars

\* lines 61-63
OpenDir(t) ==
    /\ th[t].pc = "opendir"
    /\ LET d == opendir(fs, cwd, th[t].dirpath)
       IN  IF d = NULL
           THEN /\ th' = [th EXCEPT ![t] = Raise(@, "Unable to open directory: ")]
                /\ UNCHANGED openDirs
           ELSE /\ th' = [th EXCEPT ![t].dir = d, ![t].idx = 0, ![t].pc = "realpath"]
                /\ openDirs' = openDirs + 1
    /\ UNCHANGED <<fs, cwd, faults>>
    /\ UNCHANGED callerVars

\* lines 64-70
RealpathTarget(t) ==
    /\ th[t].pc = "realpath"
    /\ LET c == realpath(fs, cwd, th[t].target_rel)
       IN  IF c = NULL
           THEN th' = [th EXCEPT ![t] = Raise(@, "Failure in realpath(): ")]
           ELSE th' = [th EXCEPT ![t].target = c, ![t].vec = <<>>, ![t].pc = "readdir"]
    /\ UNCHANGED <<fs, cwd, openDirs, faults>>
    /\ UNCHANGED callerVars

\* lines 72-73 and 99
ReadDir(t) ==
    /\ th[t].pc = "readdir"
    /\ LET ents == fs[th[t].dir].ents
       IN  IF th[t].idx = Len(ents)
           THEN th' = [th EXCEPT ![t].pc = "returned"]
           ELSE th' = [th EXCEPT ![t].idx = @ + 1,
                                 ![t].path = Append(th[t].dirpath, ents[th[t].idx + 1]),
                                 ![t].pc = "lstat"]
    /\ UNCHANGED <<fs, cwd, openDirs, faults>>
    /\ UNCHANGED callerVars

\* lines 74-79
Lstat(t) ==
    /\ th[t].pc = "lstat"
    /\ \E fail \in Fault :
          /\ Charge(fail)
          /\ LET n == lstat_node(fs, cwd, th[t].path)
             IN  IF fail \/ n = NULL
                 THEN th' = [th EXCEPT ![t] = Raise(@, "Failure in stat(): ")]
                 ELSE IF S_ISLNK(fs, n)
                 THEN th' = [th EXCEPT ![t].pc = "readlink"]
                 ELSE th' = [th EXCEPT ![t].pc = "readdir"]
    /\ UNCHANGED <<fs, cwd, openDirs>>
    /\ UNCHANGED callerVars

\* lines 80-85
ReadLink(t) ==
    /\ th[t].pc = "readlink"
    /\ \E fail \in Fault :
          /\ Charge(fail)
          /\ LET n == lnode(fs, cwd, th[t].path)
             IN  IF fail \/ n = NULL \/ ~S_ISLNK(fs, n)
                 THEN th' = [th EXCEPT ![t] = Raise(@, "Failure in readlink(): ")]
                 ELSE th' = [th EXCEPT ![t].lnk_rel = readlink(fs, n),
                                       ![t].pc = "chdir"]
    /\ UNCHANGED <<fs, cwd, openDirs>>
    /\ UNCHANGED callerVars

\* Mutant of PushDir: the working directory is left where it is.
PushDir_nochdir(t) ==
    /\ th[t].pc = "chdir"
    /\ th' = [th EXCEPT ![t].olddir = ChDir_olddir(cwd), ![t].pc = "resolve"]
    /\ UNCHANGED <<fs, cwd, openDirs, faults>>
    /\ UNCHANGED callerVars

\* line 87: ChDir cd(dirpath)
PushDir(t) ==
    /\ th[t].pc = "chdir"
    /\ \E fail \in Fault :
          /\ Charge(fail)
          /\ LET d == ChDir_chdir(fs, cwd, th[t].dirpath)
             IN  IF fail \/ d = NULL
                 THEN /\ th' = [th EXCEPT ![t] = Raise(@, ErrAcquire)]
                      /\ UNCHANGED cwd
                 ELSE /\ th' = [th EXCEPT ![t].olddir = ChDir_olddir(cwd),
                                          ![t].pc = "resolve"]
                      /\ cwd' = d
    /\ UNCHANGED <<fs, openDirs>>
    /\ UNCHANGED callerVars

\* line 88: realpath(lnk_rel) in the working directory of the moment
ResolveLink(t) ==
    /\ th[t].pc = "resolve"
    /\ th' = [th EXCEPT ![t].lnk_dst = realpath(fs, cwd, th[t].lnk_rel),
                        ![t].pc = "popd"]
    /\ UNCHANGED <<fs, cwd, openDirs, faults>>
    /\ UNCHANGED callerVars

\* Mutant of PopDir: the working directory is not changed back.
PopDir_norestore(t) ==
    /\ th[t].pc = "popd"
    /\ th' = [th EXCEPT ![t].pc = "compare"]
    /\ UNCHANGED <<fs, cwd, openDirs, faults>>
    /\ UNCHANGED callerVars

\* Mutant of PopDir: a failed resolution raises before the directory is
\* changed back.
PopDir_raiseFirst(t) ==
    /\ th[t].pc = "popd"
    /\ IF th[t].lnk_dst = NULL
       THEN /\ th' = [th EXCEPT ![t] = Raise(@, "Failure in realpath(): ")]
            /\ UNCHANGED cwd
       ELSE /\ th' = [th EXCEPT ![t].pc = "compare"]
            /\ cwd' = ChDir_popd(th[t].olddir)
    /\ UNCHANGED <<fs, openDirs, faults>>
    /\ UNCHANGED callerVars

\* line 89: cd.popd()
PopDir(t) ==
    /\ th[t].pc = "popd"
    /\ \E fail \in Fault :
          /\ Charge(fail)
          /\ IF fail
             THEN /\ th' = [th EXCEPT ![t] = Raise(@, ErrRelease)]
                  /\ UNCHANGED cwd
             ELSE /\ th' = [th EXCEPT ![t].pc = "compare"]
                  /\ cwd' = ChDir_popd(th[t].olddir)
    /\ UNCHANGED <<fs, openDirs>>
    /\ UNCHANGED callerVars

\* lines 90-95
Compare(t) ==
    /\ th[t].pc = "compare"
    /\ IF th[t].lnk_dst = NULL
       THEN th' = [th EXCEPT ![t] = Raise(@, "Failure in realpath(): ")]
       ELSE IF SamePath(th[t].target, th[t].lnk_dst)
       THEN th' = [th EXCEPT ![t].vec = Append(@, th[t].path), ![t].pc = "readdir"]
       ELSE th' = [th EXCEPT ![t].pc = "readdir"]
    /\ UNCHANGED <<fs, cwd, openDirs, faults>>
    /\ UNCHANGED callerVars

\* ------------------------------------------------- the scanned filesystems
D == <<"/", "D">>
E == <<"/", "E">>
LinkNames == {"link1", "link2", "link3"}
Absent == <<>>
LinkDests ==
    {<<".", "A">>, <<"/", "E", "B">>, <<"nonexistent">>, <<"..", "E", "m">>,
     <<"link1">>}
DOrder == <<"link2", "A", "link1", "link3">>

\* / holds D and E; E holds the files A and B and m -> ./A; D holds the
\* file A and the links a[n] of the names n that are not Absent.
ScanFS(a) ==
    (Root :> Dir(<<".", "..", "D", "E">>))
    @@ (D :> Dir(<<".", "..">> \o SelectSeq(DOrder, LAMBDA n : n = "A" \/ a[n] # Absent)))
    @@ (Append(D, "A") :> File)
    @@ (E :> Dir(<<".", "..", "A", "m", "B">>))
    @@ (Append(E, "A") :> File)
    @@ (Append(E, "B") :> File)
    @@ (Append(E, "m") :> Link(<<".", "A">>))
    @@ [p \in {Append(D, n) : n \in {x \in LinkNames : a[x] # Absent}} |-> Link(a[Last(p)])]

ScanFSs == {ScanFS(a) : a \in [LinkNames -> LinkDests \cup {Absent}]}
Cwds == {Root, D, E}
Targets ==
    {<<"/", "D", "A">>, <<"A">>, <<"/", "E", "A">>, <<"/", "E", "B">>,
     <<"/", "D", "gone">>}
DirPaths == {D, <<"D">>, E, <<"/", "gone">>}

MainOff ==
    /\ mpc = "off"
    /\ midx = 0
    /\ mfile = ""
    /\ mpath = NULL
    /\ devfds = {}
    /\ out = <<>>

Init ==
    /\ fs \in ScanFSs
    /\ cwd \in Cwds
    /\ th = [t \in Threads |-> Idle]
    /\ openDirs = 0
    /\ faults = 0
    /\ calls = 0
    /\ serialized = TRUE
    /\ MainOff

\* A caller invokes getLinksTo(target_rel, dirpath).
Call(t) ==
    /\ th[t].pc \in Terminal \cup {"idle"}
    /\ calls < MaxCalls
    /\ calls' = calls + 1
    /\ \E tr \in Targets, dp \in DirPaths :
          th' = [th EXCEPT ![t] = Enter(tr, dp, cwd)]
    /\ UNCHANGED <<fs, cwd, openDirs, faults, serialized>>
    /\ UNCHANGED mainVars

Next ==
    \/ Call(1)
    \/ OpenDir(1)
    \/ RealpathTarget(1)
    \/ ReadDir(1)
    \/ Lstat(1)
    \/ ReadLink(1)
    \/ PushDir(1)
    \/ ResolveLink(1)
    \/ PopDir(1)
    \/ Compare(1)

Spec == Init /\ [][Next]_vars

\* ------------------------------------------------------- printLinks, main
\* The characters of the names that occur in /dev/input.
Chars(s) ==
    CASE s = "." -> <<".">>
      [] s = ".." -> <<".", ".">>
      [] s = "by-id" -> <<"b", "y", "-", "i", "d">>
      [] s = "by-path" -> <<"b", "y", "-", "p", "a", "t", "h">>
      [] s = "even" -> <<"e", "v", "e", "n">>
      [] s = "event" -> <<"e", "v", "e", "n", "t">>
      [] s = "event0" -> <<"e", "v", "e", "n", "t", "0">>
      [] s = "event1" -> <<"e", "v", "e", "n", "t", "1">>
      [] s = "mouse0" -> <<"m", "o", "u", "s", "e", "0">>

\* std::string::substr(pos, n), for pos <= size()
substr(s, pos, n) ==
    SubSeq(Chars(s), pos + 1, IF pos + n < Len(Chars(s)) THEN pos + n ELSE Len(Chars(s)))

\* filename.substr(0, 5) != "event"
NotEvent(filename) == substr(filename, 0, 5) # Chars("event")

\* pathBasename (utils.hpp): the last component of a path
pathBasename(p) == Last(p)

devdir == <<"/", "dev", "input">>
ByPath == Append(devdir, "by-path")
ById == Append(devdir, "by-id")

\* The link directory of the printLinks call at main's position pc.
LinkDir(pc) == IF pc \in {"printLinks1", "scan1"} THEN ByPath ELSE ById

\* One line of output.
Line(k, dev, dir, text) == [k |-> k, dev |-> dev, dir |-> dir, text |-> text]

\* lines 117-137: getopt, then opendir("/dev/input")
MainStart ==
    /\ mpc = "start"
    /\ \E opt \in {"", "h", "v"} :
          IF opt # ""
          THEN /\ out' = Append(out, Line("usage", "", "", opt))
               /\ mpc' = "exit_success"
          ELSE IF opendir(fs, cwd, devdir) = NULL
          THEN /\ out' = Append(out, Line("Unable to open /dev/input directory", "", "", ""))
               /\ mpc' = "exit_failure"
          ELSE /\ out' = out
               /\ mpc' = "readdir"
    /\ UNCHANGED <<fs, cwd, th, openDirs, faults, calls, serialized>>
    /\ UNCHANGED <<midx, mfile, mpath, devfds>>

\* lines 140-149 and 164
MainReadDir ==
    /\ mpc = "readdir"
    /\ LET ents == fs[devdir].ents
       IN  IF midx = Len(ents)
           THEN /\ mpc' = "done"
                /\ UNCHANGED <<midx, mfile, mpath>>
           ELSE /\ midx' = midx + 1
                /\ IF NotEvent(ents[midx + 1])
                   THEN UNCHANGED <<mpc, mfile, mpath>>
                   ELSE /\ mfile' = ents[midx + 1]
                        /\ mpath' = Append(devdir, ents[midx + 1])
                        /\ mpc' = "open"
    /\ UNCHANGED <<fs, cwd, th, openDirs, faults, calls, serialized>>
    /\ UNCHANGED <<devfds, out>>

\* lines 150-156: open() may fail; the device's name is not modelled
MainOpen ==
    /\ mpc = "open"
    /\ \E ok \in BOOLEAN :
          IF ok
          THEN /\ devfds' = devfds \cup {mpath}
               /\ out' = Append(out, Line("device", pathBasename(mpath), "", ""))
               /\ mpc' = "printLinks1"
          ELSE /\ mpc' = "readdir"
               /\ UNCHANGED <<devfds, out>>
    /\ UNCHANGED <<fs, cwd, th, openDirs, faults, calls, serialized>>
    /\ UNCHANGED <<midx, mfile, mpath>>

\* lines 102-105 (and 158, 159): printLinks calls getLinksTo(path, dir)
PrintLinksCall ==
    /\ mpc \in {"printLinks1", "printLinks2"}
    /\ th' = [th EXCEPT ![1] = Enter(mpath, LinkDir(mpc), cwd)]
    /\ calls' = calls + 1
    /\ mpc' = IF mpc = "printLinks1" THEN "scan1" ELSE "scan2"
    /\ UNCHANGED <<fs, cwd, openDirs, faults, serialized>>
    /\ UNCHANGED <<midx, mfile, mpath, devfds, out>>

\* The lines printLinks prints for a returned vector.
LinkLines(dev, dir, vec) ==
    [i \in 1..Len(vec) |-> Line("link", dev, pathBasename(dir), pathBasename(vec[i]))]

\* Mutant of PrintLinksEnd: the SystemError is not caught.
PrintLinksEnd_nocatch ==
    /\ mpc \in {"scan1", "scan2"}
    /\ th[1].pc \in Terminal
    /\ IF th[1].pc = "returned"
       THEN /\ out' = out \o LinkLines(mfile, LinkDir(mpc), th[1].vec)
            /\ mpc' = IF mpc = "scan1" THEN "printLinks2" ELSE "close"
       ELSE /\ out' = out
            /\ mpc' = "aborted"
    /\ UNCHANGED <<fs, cwd, th, openDirs, faults, calls, serialized>>
    /\ UNCHANGED <<midx, mfile, mpath, devfds>>

\* lines 105-110: the links are printed, or the SystemError is caught and
\* reported; either way printLinks returns to main
PrintLinksEnd ==
    /\ mpc \in {"scan1", "scan2"}
    /\ th[1].pc \in Terminal
    /\ IF th[1].pc = "returned"
       THEN out' = out \o LinkLines(mfile, LinkDir(mpc), th[1].vec)
       ELSE out' = Append(out, Line("Unable to acquire links: ", mfile,
                                    pathBasename(LinkDir(mpc)), th[1].err))
    /\ mpc' = IF mpc = "scan1" THEN "printLinks2" ELSE "close"
    /\ UNCHANGED <<fs, cwd, th, openDirs, faults, calls, serialized>>
    /\ UNCHANGED <<midx, mfile, mpath, devfds>>

\* Mutant of MainClose: the descriptor is closed only when the by-id scan
\* returned.
MainClose_onSuccess ==
    /\ mpc = "close"
    /\ devfds' = IF th[1].pc = "returned" THEN devfds \ {mpath} ELSE devfds
    /\ mpc' = "readdir"
    /\ UNCHANGED <<fs, cwd, th, openDirs, faults, calls, serialized>>
    /\ UNCHANGED <<midx, mfile, mpath, out>>

\* line 161
MainClose ==
    /\ mpc = "close"
    /\ devfds' = devfds \ {mpath}
    /\ mpc' = "readdir"
    /\ UNCHANGED <<fs, cwd, th, openDirs, faults, calls, serialized>>
    /\ UNCHANGED <<midx, mfile, mpath, out>>

\* The filesystems main runs in: /dev/input holds the nodes event0, event1,
\* event, mouse0 and even, and the link directories by-path (links p0, p1) and
\* by-id (link i0); a link directory is missing when its links are <<>>.
MainFS(bp, bi) ==
    (Root :> Dir(<<".", "..", "dev">>))
    @@ (<<"/", "dev">> :> Dir(<<".", "..", "input">>))
    @@ (devdir :> Dir(<<".", "..">>
                      \o (IF bi = <<>> THEN <<>> ELSE <<"by-id">>)
                      \o <<"event0", "mouse0">>
                      \o (IF bp = <<>> THEN <<>> ELSE <<"by-path">>)
                      \o <<"even", "event", "event1">>))
    @@ [p \in {Append(devdir, n) : n \in {"event0", "event1", "event", "mouse0", "even"}}
           |-> File]
    @@ (IF bp = <<>> THEN <<>>
        ELSE (ByPath :> Dir(<<".", "..", "p0", "p1">>))
             @@ (Append(ByPath, "p0") :> Link(bp[1]))
             @@ (Append(ByPath, "p1") :> Link(bp[2])))
    @@ (IF bi = <<>> THEN <<>>
        ELSE (ById :> Dir(<<".", "..", "i0">>))
             @@ (Append(ById, "i0") :> Link(bi[1])))

\* A filesystem without /dev/input.
NoDevFS == (Root :> Dir(<<".", "..", "dev">>)) @@ (<<"/", "dev">> :> Dir(<<".", "..">>))

ByPathLinks ==
    {<<>>,
     << <<"..", "event0">>, <<"..", "event1">> >>,
     << <<"..", "gone">>, <<"..", "event1">> >>,
     << <<"..", "event1">>, <<"/", "dev", "input", "event1">> >>}
ByIdLinks ==
    {<<>>, << <<"/", "dev", "input", "event0">> >>, << <<"..", "event1">> >>}
MainFSs == {MainFS(bp, bi) : bp \in ByPathLinks, bi \in ByIdLinks} \cup {NoDevFS}

MainInit ==
    /\ fs \in MainFSs
    /\ cwd \in {Root, <<"/", "dev">>}
    /\ th = [t \in Threads |-> Idle]
    /\ openDirs = 0
    /\ faults = 0
    /\ calls = 0
    /\ serialized = TRUE
    /\ mpc = "start"
    /\ midx = 0
    /\ mfile = ""
    /\ mpath = NULL
    /\ devfds = {}
    /\ out = <<>>

MainNext ==
    \/ MainStart
    \/ MainReadDir
    \/ MainOpen
    \/ PrintLinksCall
    \/ PrintLinksEnd
    \/ MainClose
    \/ OpenDir(1)
    \/ RealpathTarget(1)
    \/ ReadDir(1)
    \/ Lstat(1)
    \/ ReadLink(1)
    \/ PushDir(1)
    \/ ResolveLink(1)
    \/ PopDir(1)
    \/ Compare(1)

MainSpec == MainInit /\ [][MainNext]_vars

\* --------------------------------------------- two threads of one process
\* Thread 1 scans D for D/A and thread 2 scans E for E/A.  When the calls
\* are serialized, a thread enters getLinksTo only while the other one is
\* outside of it.
ConcInput(t) == IF t = 1 THEN <<Append(D, "A"), D>> ELSE <<Append(E, "A"), E>>

ConcCall(t) ==
    /\ th[t].pc = "idle"
    /\ serialized => \A u \in Threads \ {t} : th[u].pc \in Terminal \cup {"idle"}
    /\ th' = [th EXCEPT ![t] = Enter(ConcInput(t)[1], ConcInput(t)[2], cwd)]
    /\ calls' = calls + 1
    /\ UNCHANGED <<fs, cwd, openDirs, faults, serialized>>
    /\ UNCHANGED mainVars

ConcFSs ==
    {ScanFS(a) : a \in {x \in [LinkNames -> LinkDests \cup {Absent}] : x["link3"] = Absent}}

ConcInit ==
    /\ fs \in ConcFSs
    /\ cwd \in Cwds
    /\ th = [t \in Threads |-> Idle]
    /\ openDirs = 0
    /\ faults = 0
    /\ calls = 0
    /\ serialized \in BOOLEAN
    /\ MainOff

ConcNext ==
    \E t \in Threads :
        \/ ConcCall(t)
        \/ OpenDir(t)
        \/ RealpathTarget(t)
        \/ ReadDir(t)
        \/ Lstat(t)
        \/ ReadLink(t)
        \/ PushDir(t)
        \/ ResolveLink(t)
        \/ PopDir(t)
        \/ Compare(t)

ConcSpec == ConcInit /\ [][ConcNext]_vars

\* ------------------------------------------------- what a scan should find
\* These definitions state the expected result of a scan from the
\* filesystem alone; none of them reads the state of a running scan.
Range(q) == {q[i] : i \in 1..Len(q)}

\* The entry `n` of the canonical directory `dir` is itself a symbolic link.
IsLinkEntry(f, dir, n) ==
    /\ n \notin {".", ".."}
    /\ Append(dir, n) \in DOMAIN f
    /\ f[Append(dir, n)].kind = "link"

\* The canonical destination of the link `n` of `dir`, its raw text taken
\* relative to `dir`; NULL when it cannot be canonicalized.
DestOf(f, dir, n) == realpath(f, dir, f[Append(dir, n)].dest)

\* The names of the entries of `dir` that are links to the canonical `tgt`,
\* in directory-iteration order.
MatchingNames(f, dir, tgt) ==
    SelectSeq(f[dir].ents, LAMBDA n : IsLinkEntry(f, dir, n) /\ DestOf(f, dir, n) = tgt)

\* The sequence getLinksTo(tr, dp) should return when called with working
\* directory wd (the directory opens and the target canonicalizes).
Expected(f, wd, tr, dp) ==
    LET names == MatchingNames(f, opendir(f, wd, dp), realpath(f, wd, tr))
    IN  [i \in 1..Len(names) |-> Append(dp, names[i])]

HasBrokenLink(f, dir) ==
    \E n \in Range(f[dir].ents) : IsLinkEntry(f, dir, n) /\ DestOf(f, dir, n) = NULL

\* The inputs of the call of thread t are usable: the directory opens and
\* the target canonicalizes, from the working directory of the call.
Usable(t) ==
    /\ opendir(fs, th[t].cwd0, th[t].dirpath) # NULL
    /\ realpath(fs, th[t].cwd0, th[t].target_rel) # NULL

Count(q, x) == Cardinality({i \in 1..Len(q) : q[i] = x})

\* ------------------------------------------------------------------ claims

\* C1: a call on a directory that holds at least one broken link does not
\* raise; it returns the matches of the valid links of the directory.
C1_SkipsBrokenLinks ==
    \A t \in Threads :
        (/\ th[t].pc \in Terminal
         /\ faults = 0
         /\ Usable(t)
         /\ HasBrokenLink(fs, opendir(fs, th[t].cwd0, th[t].dirpath)))
        => /\ th[t].pc = "returned"
           /\ th[t].vec = Expected(fs, th[t].cwd0, th[t].target_rel, th[t].dirpath)

\* C2: in a returned sequence every entry that is a link to the target
\* appears exactly once, as dirpath/name, in directory-iteration order.
C2_NoFalseNegatives ==
    \A t \in Threads :
        th[t].pc = "returned" =>
            LET exp == Expected(fs, th[t].cwd0, th[t].target_rel, th[t].dirpath)
            IN  /\ SelectSeq(th[t].vec, LAMBDA x : x \in Range(exp)) = exp
                /\ \A x \in Range(exp) : Count(th[t].vec, x) = 1

C2_Witness ==
    /\ th[1].pc = "returned"
    /\ Len(Expected(fs, th[1].cwd0, th[1].target_rel, th[1].dirpath)) >= 2
    /\ Len(fs[th[1].dir].ents) > 2 + Len(th[1].vec)

\* C3: every path of a returned sequence is dirpath/name for an entry that
\* is itself a symbolic link and whose canonical destination is the
\* canonical target; entries that are no links (the target file, "." and
\* "..") and links to other files are not in it.
C3_NoFalsePositives ==
    \A t \in Threads :
        th[t].pc = "returned" =>
            \A i \in 1..Len(th[t].vec) :
                \E n \in Range(fs[th[t].dir].ents) :
                    /\ th[t].vec[i] = Append(th[t].dirpath, n)
                    /\ IsLinkEntry(fs, th[t].dir, n)
                    /\ DestOf(fs, th[t].dir, n) = realpath(fs, th[t].cwd0, th[t].target_rel)

C3_Witness ==
    /\ th[1].pc = "returned"
    /\ Len(th[1].vec) >= 1
    /\ th[1].target = Append(th[1].dir, "A")
    /\ \E n \in Range(fs[th[1].dir].ents) :
          /\ IsLinkEntry(fs, th[1].dir, n)
          /\ DestOf(fs, th[1].dir, n) \notin {NULL, th[1].target}

C5_DirectoryUnavailable ==
    \A t \in Threads :
        (th[t].pc # "idle" /\ opendir(fs, th[t].cwd0, th[t].dirpath) = NULL)
        => /\ th[t].pc \in {"opendir", "raised"}
           /\ th[t].pc = "raised" => th[t].err = "Unable to open directory: "

C5_Witness ==
    /\ th[1].pc = "raised"
    /\ th[1].err = "Unable to open directory: "
    /\ opendir(fs, th[1].cwd0, th[1].dirpath) = NULL
    /\ realpath(fs, th[1].cwd0, th[1].target_rel) = NULL

\* The outcome of getLinksTo(tr, dp) called with working directory wd when
\* no system call fails for a reason outside of the filesystem: the error
\* raised, or the sequence returned.
Outcome(f, wd, tr, dp) ==
    IF opendir(f, wd, dp) = NULL THEN <<"raised", "Unable to open directory: ", <<>> >>
    ELSE IF realpath(f, wd, tr) = NULL THEN <<"raised", "Failure in realpath(): ", <<>> >>
    ELSE IF HasBrokenLink(f, opendir(f, wd, dp))
         THEN <<"raised", "Failure in realpath(): ", <<>> >>
    ELSE <<"returned", "", Expected(f, wd, tr, dp)>>

\* C6: with an absolute target and an absolute directory path the outcome
\* of a call (the sequence returned, or the error) is the same from every
\* working directory, every destination being resolved from the link's
\* directory; and a link of D with the destination ./A is returned for the
\* target D/A.
C6_BaseIsLinkDirectory ==
    \A t \in Threads :
        (/\ th[t].pc \in Terminal
         /\ faults = 0
         /\ IsAbs(th[t].target_rel)
         /\ IsAbs(th[t].dirpath))
        => /\ \A w \in Cwds :
                 LET o == Outcome(fs, w, th[t].target_rel, th[t].dirpath)
                 IN  th[t].pc = o[1] /\ th[t].err = o[2] /\ th[t].vec = o[3]
           /\ th[t].pc = "returned" =>
              \A n \in Range(fs[th[t].dir].ents) :
                 (/\ IsLinkEntry(fs, th[t].dir, n)
                  /\ fs[Append(th[t].dir, n)].dest = <<".", "A">>
                  /\ th[t].target = Append(th[t].dir, "A"))
                 => Append(th[t].dirpath, n) \in Range(th[t].vec)

C6_Witness ==
    /\ th[1].pc = "returned"
    /\ IsAbs(th[1].target_rel)
    /\ IsAbs(th[1].dirpath)
    /\ th[1].cwd0 # th[1].dir
    /\ realpath(fs, th[1].cwd0, <<".", "A">>) \notin {NULL, th[1].target}
    /\ \E i \in 1..Len(th[1].vec) :
          fs[lnode(fs, cwd, th[1].vec[i])].dest = <<".", "A">>

\* C8: when no call is running, no directory handle opened by a call is
\* still open.
C8_HandlesReleased ==
    (\A t \in Threads : th[t].pc \in Terminal \cup {"idle"}) => openDirs = 0

\* The lines of `out` that are device lines.
DeviceLines == {i \in 1..Len(out) : out[i].k = "device"}
ErrorLines == {i \in 1..Len(out) : out[i].k = "Unable to acquire links: "}

\* C7: a failed scan is reported for its device and link directory, main
\* goes on to the next scan and the next entry, and no scan failure ends
\* the program: at the end every entry was read and every opened device
\* had both of its scans.
C7_ScanFailureIsLocal ==
    /\ mpc # "aborted"
    /\ (mpc \in {"printLinks2", "close"} /\ th[1].pc = "raised")
       => /\ out # <<>>
          /\ Last(out) = Line("Unable to acquire links: ", mfile,
                              IF mpc = "printLinks2" THEN "by-path" ELSE "by-id",
                              th[1].err)
    /\ mpc = "done"
       => /\ midx = Len(fs[devdir].ents)
          /\ calls = 2 * Cardinality(DeviceLines)

C7_Witness ==
    /\ mpc = "done"
    /\ \E i \in ErrorLines, k \in DeviceLines :
          /\ out[i].dir = "by-path"
          /\ i < Len(out)
          /\ out[i + 1].dev = out[i].dev
          /\ out[i + 1].dir = "by-id"
          /\ i + 1 < k

EventNames == {"event", "event0", "event1"}
Processing == {"printLinks1", "scan1", "printLinks2", "scan2", "close"}

\* C10: only entries named event* that opened are processed, the device
\* descriptor is open exactly while its entry is processed and is closed
\* before the next entry is read, whatever the scans did; at most one is
\* open at any time.
C10_DeviceDescriptors ==
    /\ Cardinality(devfds) <= 1
    /\ mpc \in Processing => (devfds = {mpath} /\ Last(mpath) \in EventNames)
    /\ mpc \notin Processing => devfds = {}
    /\ \A i \in DeviceLines : out[i].dev \in EventNames
    /\ th[1].pc \notin Terminal \cup {"idle"} => mpc \in {"scan1", "scan2"}

C10_Witness ==
    /\ mpc = "readdir"
    /\ devfds = {}
    /\ midx < Len(fs[devdir].ents)
    /\ ErrorLines # {}
    /\ th[1].pc = "raised"

\* C9: when the two calls are serialized, each returned sequence is the
\* sequential result and, once both calls have returned, the working
\* directory is the one each call started with.  The witness is the
\* interleaving of unserialized calls in which a destination was resolved
\* against the other thread's directory and the working directory was not
\* restored.
C9_SerializedIsSafe ==
    serialized =>
        /\ \A t \in Threads :
              th[t].pc = "returned" =>
                  th[t].vec = Expected(fs, th[t].cwd0, th[t].target_rel, th[t].dirpath)
        /\ (\A t \in Threads : th[t].pc = "returned")
           => \A t \in Threads : cwd = th[t].cwd0

C9_Witness ==
    /\ ~serialized
    /\ faults = 0
    /\ \A t \in Threads : th[t].pc = "returned"
    /\ th[1].cwd0 = th[2].cwd0
    /\ cwd # th[1].cwd0
    /\ \E t \in Threads :
          th[t].vec # Expected(fs, th[t].cwd0, th[t].target_rel, th[t].dirpath)
====
